---------------------------- MODULE Spec2Model ----------------------------
(***************************************************************************)
(* Tic Tac Toe (src/src/App.js): the outcome evaluator getWinnerInfo, the  *)
(* minimax move selector pickBestAiMove, and the App component's game      *)
(* state (mode, board, xIsNext) with its deferred AI move timer.           *)
(*                                                                         *)
(* A board is a function 0..8 -> {Null, "X", "O"}; Null models JavaScript  *)
(* null (an empty cell, no winner, no mode).  Cell indices returned by the *)
(* move selector are integers; its two non-index results (null and         *)
(* undefined) are the integers NullIndex and UndefinedIndex outside 0..8.  *)
(***************************************************************************)
EXTENDS Integers, Sequences, FiniteSets, TLC

VARIABLES
  mode,     \* App state: Null (menu), "pvp" or "ai"
  board,    \* App state: the 9 cells; in the function harnesses, the input board
  xIsNext,  \* App state: TRUE when X is to move
  timers,   \* pending setTimeout callbacks of the AI move effect: [move, board]
  cleared,  \* TRUE when the last effect cleanup cleared a timer that had not fired
  call,     \* function harnesses: the last call and what it returned
  origin    \* self-play harness: the position the game was started from

vars == <<mode, board, xIsNext, timers, cleared, call, origin>>

---------------------------------------------------------------------------
(* Values *)

Null == "null"

Cells == 0..8

Markers == {"X", "O"}

NullIndex == -1

UndefinedIndex == -2

Infinity == 100

EmptyBoard == [i \in Cells |-> Null]

AllBoards == [Cells -> {Null} \cup Markers]

---------------------------------------------------------------------------
(* Pure functions, App.js lines 4-84 *)

WIN_LINES ==
  << <<0, 1, 2>>, <<3, 4, 5>>, <<6, 7, 8>>,
     <<0, 3, 6>>, <<1, 4, 7>>, <<2, 5, 8>>,
     <<0, 4, 8>>, <<2, 4, 6>> >>

\* The test of line 18 on one line: board[a] && board[a] === board[b] && board[a] === board[c]
LineMatches(b, line) ==
  /\ b[line[1]] # Null
  /\ b[line[1]] = b[line[2]]
  /\ b[line[1]] = b[line[3]]

\* The return of line 19
Won(b, line) == [winner |-> b[line[1]], line |-> line]

\* getWinnerInfo without the truthiness test board[a] && of line 18: three equal
\* cells match even when they are empty, and the scan stops there.
RECURSIVE ScanAnyEqual(_, _)
ScanAnyEqual(b, k) ==
  IF k > Len(WIN_LINES) THEN [winner |-> Null, line |-> <<>>]
  ELSE IF b[WIN_LINES[k][1]] = b[WIN_LINES[k][2]] /\ b[WIN_LINES[k][1]] = b[WIN_LINES[k][3]]
       THEN Won(b, WIN_LINES[k])
       ELSE ScanAnyEqual(b, k + 1)

getWinnerInfoNoTruthyTest(b) == ScanAnyEqual(b, 1)

\* getWinnerInfo scanning WIN_LINES from its last line to its first.
RECURSIVE ScanBackwards(_, _)
ScanBackwards(b, k) ==
  IF k < 1 THEN [winner |-> Null, line |-> <<>>]
  ELSE IF LineMatches(b, WIN_LINES[k]) THEN Won(b, WIN_LINES[k])
       ELSE ScanBackwards(b, k - 1)

getWinnerInfoBackwards(b) == ScanBackwards(b, Len(WIN_LINES))

\* The for loop over WIN_LINES, unrolled: the first line that matches is returned.
\* A null line is the empty sequence.
getWinnerInfo(b) ==
  IF LineMatches(b, WIN_LINES[1]) THEN Won(b, WIN_LINES[1]) ELSE
  IF LineMatches(b, WIN_LINES[2]) THEN Won(b, WIN_LINES[2]) ELSE
  IF LineMatches(b, WIN_LINES[3]) THEN Won(b, WIN_LINES[3]) ELSE
  IF LineMatches(b, WIN_LINES[4]) THEN Won(b, WIN_LINES[4]) ELSE
  IF LineMatches(b, WIN_LINES[5]) THEN Won(b, WIN_LINES[5]) ELSE
  IF LineMatches(b, WIN_LINES[6]) THEN Won(b, WIN_LINES[6]) ELSE
  IF LineMatches(b, WIN_LINES[7]) THEN Won(b, WIN_LINES[7]) ELSE
  IF LineMatches(b, WIN_LINES[8]) THEN Won(b, WIN_LINES[8]) ELSE
  [winner |-> Null, line |-> <<>>]

\* isBoardFull with some in place of every.
isBoardFullSome(b) == \E i \in Cells : b[i] # Null

isBoardFull(b) == \A i \in Cells : b[i] # Null

\* The indices 0..board.length-1 in ascending order.
Indices == <<0, 1, 2, 3, 4, 5, 6, 7, 8>>

\* availableMoves without the test !board[i] of line 32: every index is pushed.
availableMovesNoTest(b) == Indices

\* The ascending list of the empty cells.
availableMoves(b) == SelectSeq(Indices, LAMBDA i : b[i] = Null)

\* scoreTerminal without the depth: every win scores 10, every loss -10.
scoreTerminalNoDepth(winner, depth) ==
  IF winner = "O" THEN 10
  ELSE IF winner = "X" THEN -10
       ELSE 0

\* scoreTerminal with the X branch a copy of the O branch.
scoreTerminalXAsO(winner, depth) ==
  IF winner = "O" THEN 10 - depth
  ELSE IF winner = "X" THEN 10 - depth
       ELSE 0

scoreTerminal(winner, depth) ==
  IF winner = "O" THEN 10 - depth
  ELSE IF winner = "X" THEN depth - 10
       ELSE 0

\* board.slice() followed by next[idx] = marker
Place(b, idx, marker) == [b EXCEPT ![idx] = marker]

\* The two comparisons exchanged: < when maximizing, > otherwise.
BetterExchanged(isMaximizing, score, bestScore) ==
  IF isMaximizing THEN score < bestScore ELSE score > bestScore

\* The comparisons made non-strict: >= when maximizing, <= otherwise.
BetterOrEqual(isMaximizing, score, bestScore) ==
  IF isMaximizing THEN score >= bestScore ELSE score <= bestScore

\* The comparison that replaces best: strict > when maximizing, strict < otherwise.
Better(isMaximizing, score, bestScore) ==
  IF isMaximizing THEN score > bestScore ELSE score < bestScore

RECURSIVE minimax(_, _, _)

\* The body of both for loops, lines 54-56 and 64-66, for every move idx: the score
\* of the result of the recursive call on the board with idx played.
ChildScores(b, isMaximizing, depth, moves) ==
  { [index |-> moves[k],
     score |-> minimax(Place(b, moves[k], IF isMaximizing THEN "O" ELSE "X"),
                       ~isMaximizing, depth + 1).score] : k \in 1..Len(moves) }

\* The value of best after the first k iterations of the for loop over moves,
\* lines 52-58 and 62-68: best is replaced on a strictly better score only.
RECURSIVE MinimaxLoop(_, _, _, _)
MinimaxLoop(isMaximizing, moves, results, k) ==
  IF k = 0
  THEN [score |-> IF isMaximizing THEN -Infinity ELSE Infinity, index |-> moves[1]]
  ELSE LET idx == moves[k]
           result == CHOOSE r \in results : r.index = idx
           best == MinimaxLoop(isMaximizing, moves, results, k - 1)
       IN  IF Better(isMaximizing, result.score, best.score)
           THEN [score |-> result.score, index |-> idx]
           ELSE best

\* A terminal node returns { score } alone: its index is undefined.
minimax(b, isMaximizing, depth) ==
  LET w == getWinnerInfo(b).winner
  IN  IF w # Null
      THEN [score |-> scoreTerminal(w, depth), index |-> UndefinedIndex]
      ELSE IF isBoardFull(b)
           THEN [score |-> 0, index |-> UndefinedIndex]
           ELSE LET moves == availableMoves(b)
                IN  MinimaxLoop(isMaximizing, moves,
                                ChildScores(b, isMaximizing, depth, moves), Len(moves))

\* The draw taken over the whole preference list: Math.floor(Math.random() * 9).
RandomDrawsWholeList == 0..8

\* The values Math.floor(Math.random() * 3) can take (Math.random() is in [0, 1)).
RandomDraws == 0..2

preferred == <<4, 0, 2, 6, 8, 1, 3, 5, 7>>

\* The set of results pickBestAiMove(b) can return: one per outcome of the random
\* draw on the empty board, a single one elsewhere.
pickBestAiMove(b) ==
  LET moves == availableMoves(b)
  IN  IF Len(moves) = 0 THEN {NullIndex}
      ELSE IF Len(moves) = 9 THEN {preferred[r + 1] : r \in RandomDraws}
           ELSE {minimax(b, TRUE, 0).index}

---------------------------------------------------------------------------
(* The App component, App.js lines 104-123 and 240-293 *)

Modes == {"pvp", "ai"}

\* winner, line 110
winner(b) == getWinnerInfo(b).winner

\* isDraw, line 116
isDraw(b) == winner(b) = Null /\ isBoardFull(b)

\* board[i] for any value of i: an index outside the array reads undefined (falsy).
CellAt(b, i) == IF i \in Cells THEN b[i] ELSE Null

\* The AI move effect returning before setTimeout on every render.
ScheduledTimersNoTimeout(m, b, x) == {{}}

\* The body of the AI move effect, lines 275-290: the set of timer sets it can
\* leave pending, one per result pickBestAiMove can return.  A timer holds the
\* move its callback closes over and the board the move was computed for.
ScheduledTimers(m, b, x) ==
  IF m # "ai" THEN {{}}
  ELSE IF winner(b) # Null \/ isDraw(b) THEN {{}}
  ELSE IF x THEN {{}}
  ELSE { IF move = NullIndex \/ CellAt(b, move) # Null
         THEN {}
         ELSE {[move |-> move, board |-> b]} : move \in pickBestAiMove(b) }

\* A re-render whose dependencies changed without the cleanup of line 292.
RunEffectNoCleanup(pending, m, b, x) ==
  { pending \cup t : t \in ScheduledTimers(m, b, x) }

\* A re-render whose dependencies [mode, board, xIsNext, winner, isDraw] changed:
\* the cleanup of line 292 clears the pending timer, then the effect body runs.
RunEffect(pending, m, b, x) == ScheduledTimers(m, b, x)

\* State updates of a handler or timer callback followed by the re-render and the
\* effect.  The updates of one callback are taken as one step: where React does not
\* batch them, a timer the effect sets between two updates of the same callback is
\* cleared by the cleanup of the second render before it can fire.
Render(pending, m, b, x) ==
  /\ mode' = m
  /\ board' = b
  /\ xIsNext' = x
  /\ timers' \in RunEffect(pending, m, b, x)
  /\ cleared' = (pending # {})
  /\ UNCHANGED <<call, origin>>

\* resetGame without setXIsNext(true), line 242.
resetGameKeepsTurn(toMenu) ==
  /\ mode # Null
  /\ Render(timers, IF toMenu THEN Null ELSE mode, EmptyBoard, xIsNext)

\* resetGame without setMode(null), line 243.
resetGameKeepsMode(toMenu) ==
  /\ mode # Null
  /\ Render(timers, mode, EmptyBoard, TRUE)

\* resetGame, lines 240-244; its buttons are rendered only once a mode is chosen.
resetGame(toMenu) ==
  /\ mode # Null
  /\ Render(timers, IF toMenu THEN Null ELSE mode, EmptyBoard, TRUE)

\* startMode, lines 246-250; its buttons are rendered only on the menu.
startMode(nextMode) ==
  /\ mode = Null
  /\ Render(timers, nextMode, EmptyBoard, TRUE)

\* The disabled attribute of every Square, line 357.
SquareDisabled(m, b, x) == winner(b) # Null \/ isDraw(b) \/ (m = "ai" /\ ~x)

\* handleSquareClick without the early return of line 253.
handleSquareClickNoTerminalReturn(i) ==
  /\ mode # Null
  /\ IF \/ board[i] # Null
        \/ (mode = "ai" /\ ~xIsNext)
     THEN UNCHANGED vars
     ELSE Render(timers, mode, Place(board, i, IF xIsNext THEN "X" ELSE "O"), ~xIsNext)

\* handleSquareClick without the early return of line 254.
handleSquareClickNoOccupiedReturn(i) ==
  /\ mode # Null
  /\ IF \/ winner(board) # Null \/ isDraw(board)
        \/ (mode = "ai" /\ ~xIsNext)
     THEN UNCHANGED vars
     ELSE Render(timers, mode, Place(board, i, IF xIsNext THEN "X" ELSE "O"), ~xIsNext)

\* handleSquareClick without the early return of line 255.
handleSquareClickNoAiTurnReturn(i) ==
  /\ mode # Null
  /\ IF \/ winner(board) # Null \/ isDraw(board)
        \/ board[i] # Null
     THEN UNCHANGED vars
     ELSE Render(timers, mode, Place(board, i, IF xIsNext THEN "X" ELSE "O"), ~xIsNext)

\* handleSquareClick, lines 252-261: the early returns change no state and so
\* cause no re-render.
handleSquareClick(i) ==
  /\ mode # Null
  /\ IF \/ winner(board) # Null \/ isDraw(board)
        \/ board[i] # Null
        \/ (mode = "ai" /\ ~xIsNext)
     THEN UNCHANGED vars
     ELSE Render(timers, mode, Place(board, i, IF xIsNext THEN "X" ELSE "O"), ~xIsNext)

\* The timer callback without setXIsNext(true), line 289.
TimerFiresKeepsTurn(t) ==
  /\ t \in timers
  /\ LET next == IF board[t.move] # Null THEN board ELSE Place(board, t.move, "O")
     IN  IF next = board
         THEN /\ timers' = timers \ {t}
              /\ UNCHANGED <<mode, board, xIsNext, cleared, call, origin>>
         ELSE Render(timers \ {t}, mode, next, xIsNext)

\* The timer callback, lines 282-290.  setBoard's updater returns prev itself when
\* the cell is taken; when neither board nor xIsNext changes there is no re-render.
TimerFires(t) ==
  /\ t \in timers
  /\ LET next == IF board[t.move] # Null THEN board ELSE Place(board, t.move, "O")
     IN  IF next = board /\ xIsNext
         THEN /\ timers' = timers \ {t}
              /\ UNCHANGED <<mode, board, xIsNext, cleared, call, origin>>
         ELSE Render(timers \ {t}, mode, next, TRUE)

Init ==
  /\ mode = Null
  /\ board = EmptyBoard
  /\ xIsNext = TRUE
  /\ timers = {}
  /\ cleared = FALSE
  /\ call = [fn |-> "none"]
  /\ origin = EmptyBoard

Next ==
  \/ \E nextMode \in Modes : startMode(nextMode)
  \/ \E toMenu \in BOOLEAN : resetGame(toMenu)
  \/ \E i \in Cells : handleSquareClick(i)
  \/ \E t \in timers : TimerFires(t)

Spec == Init /\ [][Next]_vars

\* The browser runs the callback of a pending timer once its 250 ms have passed,
\* unless the timer is cleared first.
LiveSpec == Spec /\ WF_vars(\E t \in timers : TimerFires(t))

---------------------------------------------------------------------------
(* Function harnesses: the pure functions applied to boards drawn from     *)
(* bounded sets.  The App state other than board is left at its initial    *)
(* value.                                                                  *)

NumMarks(b, marker) == Cardinality({i \in Cells : b[i] = marker})

NumEmpty(b) == NumMarks(b, Null)

\* Self-play starts from the positions of at most this many marks.
MaxStartMarks == 2

\* The derived values of one render, lines 109-116, and the empty cells.
Evaluate ==
  /\ call.fn = "none"
  /\ call' = [fn |-> "evaluate",
              winnerInfo |-> getWinnerInfo(board),
              full |-> isBoardFull(board),
              isDraw |-> isDraw(board),
              moves |-> availableMoves(board)]
  /\ UNCHANGED <<mode, board, xIsNext, timers, cleared, origin>>

EvalInit ==
  /\ board \in AllBoards
  /\ mode = Null /\ xIsNext = TRUE /\ timers = {} /\ cleared = FALSE
  /\ call = [fn |-> "none"]
  /\ origin = EmptyBoard

EvalSpec == EvalInit /\ [][Evaluate]_vars

\* One call of pickBestAiMove(board).
CallPickBestAiMove ==
  /\ call.fn = "none"
  /\ \E move \in pickBestAiMove(board) :
       call' = [fn |-> "pickBestAiMove", ret |-> move]
  /\ UNCHANGED <<mode, board, xIsNext, timers, cleared, origin>>

PickInit ==
  /\ board \in AllBoards
  /\ mode = Null /\ xIsNext = TRUE /\ timers = {} /\ cleared = FALSE
  /\ call = [fn |-> "none"]
  /\ origin = EmptyBoard

PickSpec == PickInit /\ [][CallPickBestAiMove]_vars

\* One call of pickBestAiMove(board) on a non-empty board with no winner and an
\* empty cell, together with the value the search gives each empty cell: the score
\* of minimax on the board with O played there, X to move, depth 1 (lines 54-56).
CallPickWithScores ==
  /\ call.fn = "none"
  /\ board # EmptyBoard
  /\ ~(winner(board) # Null \/ isBoardFull(board))
  /\ \E move \in pickBestAiMove(board) :
       call' = [fn |-> "pickBestAiMove",
                ret |-> move,
                scores |-> [c \in {i \in Cells : board[i] = Null} |->
                              minimax(Place(board, c, "O"), FALSE, 1).score]]
  /\ UNCHANGED <<mode, board, xIsNext, timers, cleared, origin>>

ScoreSpec == PickInit /\ [][CallPickWithScores]_vars

\* AI against AI: X plays minimax(board, false, 0).index, O plays
\* pickBestAiMove(board), until the board has a winner or is full.
GameOver(b) == winner(b) # Null \/ isBoardFull(b)

SelfPlayX ==
  /\ xIsNext
  /\ ~GameOver(board)
  /\ board' = Place(board, minimax(board, FALSE, 0).index, "X")
  /\ xIsNext' = FALSE
  /\ UNCHANGED <<mode, timers, cleared, call, origin>>

SelfPlayO ==
  /\ ~xIsNext
  /\ ~GameOver(board)
  /\ \E move \in pickBestAiMove(board) : board' = Place(board, move, "O")
  /\ xIsNext' = TRUE
  /\ UNCHANGED <<mode, timers, cleared, call, origin>>

\* The positions of alternating play, X first, with at most MaxStartMarks marks.
StartPositions ==
  {b \in AllBoards : /\ NumMarks(b, "X") + NumMarks(b, "O") <= MaxStartMarks
                     /\ NumMarks(b, "X") - NumMarks(b, "O") \in {0, 1}
                     /\ ~GameOver(b)}

SelfPlayInit ==
  /\ origin \in StartPositions
  /\ board = origin
  /\ xIsNext = (NumMarks(origin, "X") = NumMarks(origin, "O"))
  /\ mode = "ai" /\ timers = {} /\ cleared = FALSE
  /\ call = [fn |-> "none"]

SelfPlayNext == SelfPlayX \/ SelfPlayO

SelfPlaySpec == SelfPlayInit /\ [][SelfPlayNext]_vars

---------------------------------------------------------------------------
(* Claims *)

\* The lines of WIN_LINES that hold three identical non-empty markers on b.
CompletedLines(b) ==
  {k \in 1..Len(WIN_LINES) :
     \E marker \in Markers : \A j \in 1..3 : b[WIN_LINES[k][j]] = marker}

\* C1: getWinnerInfo returns a non-null winner exactly when one of the 8 lines of
\* WIN_LINES holds three identical non-empty markers, and then the returned line is
\* one of the 8 lines and its three cells all hold the returned winner.
C1_WinnerIffCompletedLine ==
  call.fn = "evaluate" =>
    LET info == call.winnerInfo
    IN  /\ Len(WIN_LINES) = 8
        /\ (info.winner # Null) <=> (CompletedLines(board) # {})
        /\ info.winner # Null =>
             /\ info.winner \in Markers
             /\ \E k \in 1..8 : info.line = WIN_LINES[k]
             /\ \A j \in 1..3 : board[info.line[j]] = info.winner

C1_Witness ==
  /\ call.fn = "evaluate"
  /\ call.winnerInfo = [winner |-> "O", line |-> <<2, 4, 6>>]
  /\ board[0] = Null /\ board[1] = "X"

\* C2: exactly one of win, draw and in-progress holds for a board; a full board with
\* no completed line is a draw and a board with no completed line and an empty cell
\* is in progress.
C2_ExactlyOneVerdict ==
  call.fn = "evaluate" =>
    LET win == call.winnerInfo.winner # Null
        draw == call.isDraw
        inProgress == call.winnerInfo.winner = Null /\ \E i \in Cells : board[i] = Null
        noLine == CompletedLines(board) = {}
        filled == \A i \in Cells : board[i] \in Markers
    IN  /\ win \/ draw \/ inProgress
        /\ ~(win /\ draw) /\ ~(win /\ inProgress) /\ ~(draw /\ inProgress)
        /\ (noLine /\ filled) => draw
        /\ (noLine /\ ~filled) => inProgress

C2_Witness ==
  /\ call.fn = "evaluate"
  /\ call.isDraw
  /\ call.winnerInfo.winner = Null
  /\ \A i \in Cells : board[i] \in Markers

\* C5: pickBestAiMove never returns the index of an occupied cell.
C5_ReturnedCellIsEmpty ==
  (call.fn = "pickBestAiMove" /\ call.ret \in Cells) => board[call.ret] = Null

C5_Witness ==
  /\ call.fn = "pickBestAiMove"
  /\ call.ret \in Cells
  /\ board[call.ret] = Null
  /\ NumMarks(board, "X") = 3 /\ NumMarks(board, "O") = 2
  /\ \E i \in Cells : i < call.ret /\ board[i] = Null

\* C6, as claimed: on every board with an empty cell, a completed line or not, the
\* result is a cell index in 0..8, and on every full board it is null.
C6_IndexUnlessFull ==
  call.fn = "pickBestAiMove" =>
    IF \E i \in Cells : board[i] = Null
    THEN call.ret \in Cells
    ELSE call.ret = NullIndex

\* C7: on the empty board every result is one of the 3 first entries of the
\* preference list [4,0,2,6,8,1,3,5,7], a center or corner and never an edge.
C7_OpeningIsCenterOrCorner ==
  (call.fn = "pickBestAiMove" /\ board = EmptyBoard) =>
    /\ call.ret \in {4, 0, 2}
    /\ \E k \in 1..3 : call.ret = <<4, 0, 2, 6, 8, 1, 3, 5, 7>>[k]
    /\ call.ret \in {4, 0, 2, 6, 8}
    /\ call.ret \notin {1, 3, 5, 7}

C7_Witness ==
  /\ call.fn = "pickBestAiMove"
  /\ board = EmptyBoard
  /\ call.ret = 2

\* Playing marker on the empty cell c completes a line of three of marker on b.
Completes(b, c, marker) ==
  /\ b[c] = Null
  /\ \E k \in 1..Len(WIN_LINES) :
       /\ \E j \in 1..3 : WIN_LINES[k][j] = c
       /\ \A j \in 1..3 : WIN_LINES[k][j] = c \/ b[WIN_LINES[k][j]] = marker

ExampleBoard == 
  [i \in Cells |-> <<"X", "O", Null, "X", "O", Null, Null, Null, Null>>[i + 1]]

\* C8: on a non-empty board with no completed line where some empty cell completes
\* an O line, the returned cell completes an O line; on [X,O,_, X,O,_, _,_,_] it is 7.
C8_TakesImmediateWin ==
  call.fn = "pickBestAiMove" =>
    /\ ( /\ board # EmptyBoard
         /\ CompletedLines(board) = {}
         /\ \E c \in Cells : Completes(board, c, "O") )
       => (call.ret \in Cells /\ Completes(board, call.ret, "O"))
    /\ board = ExampleBoard => call.ret = 7

C8_Witness ==
  /\ call.fn = "pickBestAiMove"
  /\ board = ExampleBoard
  /\ call.ret = 7

\* After O plays the empty cell c on b the game goes on and X has an empty cell that
\* completes an X line.  (When O's move ends the game X has no move.)
HandsXWin(b, c) ==
  LET next == [b EXCEPT ![c] = "O"]
  IN  /\ CompletedLines(next) = {}
      /\ \E d \in Cells : Completes(next, d, "X")

SafeCell(b, c) == b[c] = Null /\ ~HandsXWin(b, c)

\* C9: on a non-empty board with no completed line and an empty cell, when some
\* empty cell does not hand X a win on the following ply, the returned cell is
\* such a cell.
C9_NeverHandsXWin ==
  ( /\ call.fn = "pickBestAiMove"
    /\ board # EmptyBoard
    /\ CompletedLines(board) = {}
    /\ \E c \in Cells : SafeCell(board, c) )
  => (call.ret \in Cells /\ SafeCell(board, call.ret))

\* O to move, no immediate O win, an unsafe empty cell before the returned safe one.
C9_Witness ==
  /\ call.fn = "pickBestAiMove"
  /\ NumMarks(board, "X") = NumMarks(board, "O") + 1
  /\ CompletedLines(board) = {}
  /\ \A c \in Cells : ~Completes(board, c, "O")
  /\ call.ret \in Cells
  /\ SafeCell(board, call.ret)
  /\ \E c \in Cells : c < call.ret /\ board[c] = Null /\ HandsXWin(board, c)

\* C3: AI against AI from the empty board, X first with minimax(board, false, 0).index
\* and O with pickBestAiMove(board), always ends with a full board and no winner:
\* no state of that game has a completed line, the marks alternate from X, and the
\* game is over only on a full board.  (Both players' moves are functions of the
\* board once it is not empty, so the game is a single run; C3_Witness is its end.)
C3_SelfPlayEndsInDraw ==
  origin = EmptyBoard =>
    /\ CompletedLines(board) = {}
    /\ winner(board) = Null
    /\ NumMarks(board, "X") = NumMarks(board, "O") + (IF xIsNext THEN 0 ELSE 1)
    /\ GameOver(board) => \A i \in Cells : board[i] \in Markers

C3_Witness ==
  /\ origin = EmptyBoard
  /\ GameOver(board)
  /\ NumMarks(board, "X") = 5 /\ NumMarks(board, "O") = 4
  /\ CompletedLines(board) = {}

\* C4: in AI mode no reachable state has a completed line of X.
C4_AiNeverLoses ==
  mode = "ai" =>
    /\ winner(board) # "X"
    /\ \A k \in 1..Len(WIN_LINES) : \E j \in 1..3 : board[WIN_LINES[k][j]] # "X"

\* A game in AI mode that the human played to the last cell.
C4_Witness ==
  /\ mode = "ai"
  /\ NumMarks(board, "X") = 5 /\ NumMarks(board, "O") = 4
  /\ winner(board) = Null

\* A step that writes an O on the board.
WritesO == \E i \in Cells : board[i] # "O" /\ board'[i] = "O"

\* C10: a deferred AI move is never applied to a stale board.  A pending timer
\* always holds a move computed for the current board, on an empty cell, in AI mode
\* with O to move; every O written in AI mode is the pending move written onto the
\* board it was computed for; and in AI mode the board never holds more O than X
\* (so no O on a board with no X).
C10_NoStaleAiMove ==
  /\ [](\A t \in timers : /\ mode = "ai" /\ ~xIsNext
                          /\ t.board = board
                          /\ board[t.move] = Null)
  /\ [](mode = "ai" => NumMarks(board, "O") <= NumMarks(board, "X"))
  /\ [][(mode = "ai" /\ WritesO) =>
          \E t \in timers : t.board = board /\ board' = [board EXCEPT ![t.move] = "O"]]_vars

\* Reset or Change Mode (or mode start) cleared a pending AI move: the board is
\* empty and the move was not applied.
C10_Witness ==
  /\ cleared
  /\ mode = "ai"
  /\ board = EmptyBoard
  /\ timers = {}

\* The game has a winner or is a draw (lines 110 and 116).
Terminal == winner(board) # Null \/ isDraw(board)

\* C11: once the board has a winner or is a draw, no handleSquareClick(i) and no AI
\* move changes the board or the turn: no timer is pending, every click is a step
\* that leaves board and xIsNext as they are, and the only steps that change them
\* are Reset (empty board, X to move, same mode) and Change Mode (the menu).
C11_TerminalAcceptsNoMove ==
  /\ []((mode # Null /\ Terminal) => timers = {})
  /\ [][(mode # Null /\ Terminal) =>
          /\ \A i \in Cells : handleSquareClick(i) => UNCHANGED <<board, xIsNext>>
          /\ \/ UNCHANGED <<mode, board, xIsNext>>
             \/ /\ board' = EmptyBoard /\ xIsNext' = TRUE /\ mode' = mode
                /\ resetGame(FALSE)
             \/ /\ board' = EmptyBoard /\ xIsNext' = TRUE /\ mode' = Null
                /\ resetGame(TRUE)]_vars

\* A game won by O in AI mode with empty cells left to click.
C11_Witness ==
  /\ mode = "ai"
  /\ winner(board) = "O"
  /\ \E i \in Cells : board[i] = Null
  /\ xIsNext

\* C12: a step of handleSquareClick or of the AI timer callback leaves every
\* non-empty cell as it is and writes at most one cell, which was empty.
C12_MovesNeverOverwrite ==
  [][((\E i \in Cells : handleSquareClick(i)) \/ (\E t \in timers : TimerFires(t))) =>
       /\ \A i \in Cells : board[i] # Null => board'[i] = board[i]
       /\ Cardinality({i \in Cells : board'[i] # board[i]}) <= 1]_vars

\* A position of the two-player mode with marks of both players and X to move.
C12_Witness ==
  /\ mode = "pvp"
  /\ NumMarks(board, "X") = 3 /\ NumMarks(board, "O") = 3
  /\ xIsNext

\* C13: on a non-empty board with no winner and an empty cell, pickBestAiMove
\* returns the lowest empty cell among those whose value (minimax after O plays
\* there, X to move, depth 1) is the maximum over the empty cells.
C13_FirstFoundBreaksTies ==
  call.fn = "pickBestAiMove" =>
    LET empty == DOMAIN call.scores
        top == {c \in empty : \A d \in empty : call.scores[c] >= call.scores[d]}
    IN  /\ empty = {i \in Cells : board[i] = Null}
        /\ call.ret \in top
        /\ \A c \in top : call.ret <= c

\* Several empty cells share the maximum and the lowest of them is not the first
\* empty cell.
C13_Witness ==
  /\ call.fn = "pickBestAiMove"
  /\ LET empty == DOMAIN call.scores
         top == {c \in empty : \A d \in empty : call.scores[c] >= call.scores[d]}
     IN  /\ Cardinality(top) >= 2
         /\ \E c \in empty : c < call.ret
         /\ \E c \in top : c > call.ret

\* The scan order: rows, then columns, then the two diagonals.
ScanOrder ==
  << <<0, 1, 2>>, <<3, 4, 5>>, <<6, 7, 8>>,
     <<0, 3, 6>>, <<1, 4, 7>>, <<2, 5, 8>>,
     <<0, 4, 8>>, <<2, 4, 6>> >>

\* The three cells of line hold the same marker on b.
Complete(b, line) ==
  \E marker \in Markers : \A j \in 1..3 : b[line[j]] = marker

\* C14: when one or several lines are complete, of one marker or of both,
\* getWinnerInfo returns the first complete line in the order rows, columns,
\* diagonals, and that line's marker.
C14_FirstCompletedLineWins ==
  call.fn = "evaluate" =>
    \A k \in 1..8 :
      (Complete(board, ScanOrder[k]) /\ \A j \in 1..(k - 1) : ~Complete(board, ScanOrder[j]))
      => call.winnerInfo = [winner |-> board[ScanOrder[k][1]], line |-> ScanOrder[k]]

\* X holds the top row and O the middle row: the top row and X are returned.
C14_Witness ==
  /\ call.fn = "evaluate"
  /\ \A i \in 0..2 : board[i] = "X"
  /\ \A i \in 3..5 : board[i] = "O"
  /\ call.winnerInfo = [winner |-> "X", line |-> <<0, 1, 2>>]

\* AI mode, no winner and no draw, O to move.
AiThinking == mode = "ai" /\ ~Terminal /\ ~xIsNext

\* C15: while the AI is thinking exactly one timer is pending, for the cell
\* pickBestAiMove chooses on the current board, an empty one; when it fires,
\* exactly one O is added, at that cell, and the turn passes to X; and, the
\* callback of a pending timer being run eventually, the AI never stays with O
\* to move: X is to move again later (after the AI move, or after a Reset or
\* Change Mode that intervened).
C15_AiMoveIsApplied ==
  /\ [](AiThinking =>
          \E t \in timers : /\ timers = {t}
                            /\ t.board = board
                            /\ t.move \in pickBestAiMove(board)
                            /\ t.move \in Cells
                            /\ board[t.move] = Null)
  /\ [][(AiThinking /\ \E t \in timers : TimerFires(t)) =>
          \E move \in pickBestAiMove(board) :
            /\ board' = Place(board, move, "O")
            /\ NumMarks(board', "O") = NumMarks(board, "O") + 1
            /\ xIsNext'
            /\ mode' = mode]_vars
  /\ (AiThinking ~> xIsNext)

\* The AI has answered twice and the game goes on with X to move.
C15_Witness ==
  /\ mode = "ai"
  /\ NumMarks(board, "O") = 2 /\ NumMarks(board, "X") = 2
  /\ xIsNext
  /\ ~Terminal

\* C16: from every reachable state with a mode chosen Reset and Change Mode can
\* be taken, and from the menu each mode can be chosen; Reset yields an empty board
\* with X to move and the mode unchanged, Change Mode an empty board with X to move
\* and no mode (the menu), and choosing a mode an empty board with X to move in
\* that mode.  None of them leaves a timer pending.
C16_ResetYieldsFreshGame ==
  /\ [](mode # Null => ENABLED resetGame(FALSE) /\ ENABLED resetGame(TRUE))
  /\ [](mode = Null => \A nextMode \in Modes : ENABLED startMode(nextMode))
  /\ [][/\ resetGame(FALSE) =>
            board' = EmptyBoard /\ xIsNext' = TRUE /\ mode' = mode /\ timers' = {}
        /\ resetGame(TRUE) =>
            board' = EmptyBoard /\ xIsNext' = TRUE /\ mode' = Null /\ timers' = {}
        /\ \A nextMode \in Modes :
             startMode(nextMode) =>
               board' = EmptyBoard /\ xIsNext' = TRUE /\ mode' = nextMode /\ timers' = {}]_vars

\* Change Mode pressed while an AI move was pending: the menu, with the timer
\* cleared.
C16_Witness ==
  /\ mode = Null
  /\ cleared
  /\ board = EmptyBoard /\ xIsNext /\ timers = {}

\* C17: in every reachable state the number of X minus the number of O is 0 or 1,
\* and xIsNext is true exactly when the two numbers are equal.
C17_TurnMatchesMarkCount ==
  LET diff == NumMarks(board, "X") - NumMarks(board, "O")
  IN  /\ diff \in {0, 1}
      /\ xIsNext <=> (diff = 0)

\* The two-player mode after seven moves, O to move.
C17_Witness ==
  /\ mode = "pvp"
  /\ NumMarks(board, "X") = 4 /\ NumMarks(board, "O") = 3
  /\ ~xIsNext

\* marker has a completed line on b.
HasLine(b, marker) ==
  \E k \in 1..Len(WIN_LINES) : \A j \in 1..3 : b[WIN_LINES[k][j]] = marker

\* C18: in no reachable state do X and O both have a completed line, and the
\* winner getWinnerInfo reports is the one a scan of WIN_LINES in the opposite
\* order reports.
C18_SingleWinner ==
  /\ ~(HasLine(board, "X") /\ HasLine(board, "O"))
  /\ getWinnerInfo(board).winner = getWinnerInfoBackwards(board).winner

\* A last move that completed two lines at once: the two scan orders report
\* different lines and the same winner.
C18_Witness ==
  /\ Cardinality(CompletedLines(board)) = 2
  /\ getWinnerInfo(board).line # getWinnerInfoBackwards(board).line
  /\ mode # Null

\* C19: in AI mode O is never to move on an empty board, so the AI move effect
\* never calls pickBestAiMove on an empty board; a pending timer holds
\* minimax(board, true, 0).index computed for a non-empty board; and every O written
\* in AI mode is written at minimax(board, true, 0).index.
C19_AiNeverOpens ==
  /\ [](mode = "ai" /\ ~xIsNext => board # EmptyBoard)
  /\ [](\A t \in timers : /\ t.board # EmptyBoard
                          /\ t.move = minimax(t.board, TRUE, 0).index)
  /\ [][(mode = "ai" /\ WritesO) =>
          /\ board # EmptyBoard
          /\ board' = Place(board, minimax(board, TRUE, 0).index, "O")]_vars

\* The AI is computing its first answer: one X on the board and a timer pending.
C19_Witness ==
  /\ mode = "ai"
  /\ timers # {}
  /\ NumEmpty(board) = 8

\* A step that writes an X on the board.
WritesX == \E i \in Cells : board[i] # "X" /\ board'[i] = "X"

\* C20: in AI mode with O to move every square is disabled and handleSquareClick(i)
\* leaves board and xIsNext as they are for every cell i; X is written only when X
\* is to move, and the turn then passes to O; and every O written in AI mode is
\* written by the timer callback.
C20_HumanWaitsForAi ==
  /\ [](mode = "ai" /\ ~xIsNext => SquareDisabled(mode, board, xIsNext))
  /\ [][(mode = "ai" /\ ~xIsNext) =>
          \A i \in Cells : handleSquareClick(i) => UNCHANGED <<board, xIsNext>>]_vars
  /\ [][(mode = "ai" /\ WritesX) => xIsNext /\ ~xIsNext']_vars
  /\ [][(mode = "ai" /\ WritesO) => \E t \in timers : TimerFires(t)]_vars

\* The AI is computing its third answer while empty squares remain to click.
C20_Witness ==
  /\ mode = "ai"
  /\ ~xIsNext
  /\ timers # {}
  /\ NumMarks(board, "O") = 2
  /\ \E i \in Cells : board[i] = Null

===========================================================================
